---- MODULE Spec2Model ----
(***************************************************************************)
(* Model of plugins/file_rename.py: the auto_rename_files handler as a     *)
(* state machine.  Every inbound message runs one instance of the handler; *)
(* instances interleave at their await points and share the process-wide   *)
(* renaming_operations table, the working directories and the wall clock.  *)
(*                                                                         *)
(* Environment: download_media, send_video, the muxer subprocess, the      *)
(* image library, msg.delete() and the error reply of the job boundary may *)
(* each fail, and the model draws their outcome nondeterministically.      *)
(* The progress edits of the status message (msg.edit) and the preference  *)
(* store lookups are taken to return; os.remove of an existing file in the *)
(* working directories is taken to succeed.                                *)
(*                                                                         *)
(* The pure functions of the module have specifications of their own:      *)
(* ExtractSpec applies extract_season_episode and extract_quality to a     *)
(* caption and a filename, TemplateSpec runs the placeholder replacement   *)
(* of the handler, DurationSpec applies get_reliable_duration.  Texts are  *)
(* tuples of one-character strings.                                        *)
(***************************************************************************)
EXTENDS Integers, FiniteSets, Sequences, TLC

\* ---------------------------------------------------------------- bounds
NumEvents == 2        \* inbound messages handled in one behaviour
TickSeconds == 10     \* granularity of the wall clock
MaxTime == 10         \* the clock stops advancing here

\* ------------------------------------------------------ program constants
DebounceSeconds == 10
max_retries == 3
SecondsPerDay == 86400

Jobs == 1..NumEvents
FileIds == {"f1", "f2"}
Names == {"n1", "n2"}          \* resolved new_filename values

\* What an event can carry.  File ids and names are interchangeable, so the
\* first event's are fixed and the later events range over all of them:
\* same or other file id, same or other resolved name.
EventFileIds(j) == IF j = 1 THEN {"f1"} ELSE FileIds
EventNames(j) == IF j = 1 THEN {"n1"} ELSE Names
None == "None"
NoEntry == -1                  \* file id absent from renaming_operations
NoFile == 0                    \* path absent from the disk

Failures == {"flood", "timeout", "error"}
Results == {"ok"} \cup Failures

VARIABLES
    now,                  \* datetime.now(), in seconds
    renaming_operations,  \* file id -> timestamp of insertion, or NoEntry
    downloads,            \* downloads/<name>: job whose data it holds, or NoFile
    metadata,             \* metadata/<name>: job whose data it holds, or NoFile
    thumbs,               \* thumbs[j]: the thumbnail file fetched by job j exists
    pc,                   \* position of each handler instance
    file_id,              \* message.<media>.file_id of the event
    new_filename,         \* resolved template + extension of the event
    arrival,              \* clock value when the event arrived
    download_path, metadata_path, thumb_path, file_path,   \* handler locals
    retry_count,          \* handler local of the upload loop
    metaFailed,           \* add_metadata raised
    thumbFailed,          \* fetching or normalising the thumbnail failed
    sends,                \* number of send_video calls
    delivered,            \* a send_video call returned
    replies,              \* kinds of reply_text calls issued for the event
    outcome,              \* "none" | "Uploaded" | "Failed" | "Silent"
    cause,                \* what raised the exception that failed the job
    call,                 \* a call of one of the module's pure functions
    result                \* what that call returned or raised

handler == <<now, renaming_operations, downloads, metadata, thumbs, pc,
             file_id, new_filename, arrival, download_path, metadata_path,
             thumb_path, file_path, retry_count, metaFailed, thumbFailed,
             sends, delivered, replies, outcome, cause>>

\* the handler leaves call and result alone; they belong to the
\* specifications of the extraction functions, the template resolution and
\* the duration filter further down
pure == <<call, result>>
vars == <<handler, pure>>

disk == <<downloads, metadata, thumbs>>
locals == <<download_path, metadata_path, thumb_path, file_path, retry_count>>
history == <<metaFailed, thumbFailed, sends, delivered, replies, outcome,
             cause>>
event == <<file_id, new_filename, arrival>>

\* --------------------------------------------------------------- helpers

\* timedelta.seconds: the seconds component only, the days are dropped
Seconds(d) == d % SecondsPerDay

\* lines 246-248: the event is a duplicate and is dropped
IsDuplicate(fid) ==
    /\ renaming_operations[fid] # NoEntry
    /\ Seconds(now - renaming_operations[fid]) < DebounceSeconds

\* os.path.exists of the file the handler local file_path names
Exists(j, kind) ==
    CASE kind = "download" -> downloads[download_path[j]] # NoFile
      [] kind = "metadata" -> metadata[metadata_path[j]] # NoFile
      [] OTHER -> FALSE

\* cleanup_files(path): the directory after removing the named entry
Removed(dir, path) ==
    IF path = None THEN dir ELSE [dir EXCEPT ![path] = NoFile]

Admitted(j) == pc[j] \notin {"idle", "noTemplate", "dropped"}
InFlight(j) == Admitted(j) /\ pc[j] # "done"

\* ------------------------------------------------------------------ Init
NoCall == [fn |-> "none"]

\* the process after start-up: no handler instance has run
HandlerInit ==
    /\ now = 0
    /\ renaming_operations = [f \in FileIds |-> NoEntry]
    /\ downloads = [n \in Names |-> NoFile]
    /\ metadata = [n \in Names |-> NoFile]
    /\ thumbs = [j \in Jobs |-> FALSE]
    /\ pc = [j \in Jobs |-> "idle"]
    /\ file_id = [j \in Jobs |-> None]
    /\ new_filename = [j \in Jobs |-> None]
    /\ arrival = [j \in Jobs |-> 0]
    /\ download_path = [j \in Jobs |-> None]
    /\ metadata_path = [j \in Jobs |-> None]
    /\ thumb_path = [j \in Jobs |-> None]
    /\ file_path = [j \in Jobs |-> None]
    /\ retry_count = [j \in Jobs |-> 0]
    /\ metaFailed = [j \in Jobs |-> FALSE]
    /\ thumbFailed = [j \in Jobs |-> FALSE]
    /\ sends = [j \in Jobs |-> 0]
    /\ delivered = [j \in Jobs |-> FALSE]
    /\ replies = [j \in Jobs |-> {}]
    /\ outcome = [j \in Jobs |-> "none"]
    /\ cause = [j \in Jobs |-> "none"]

Init ==
    /\ HandlerInit
    /\ call = NoCall
    /\ result = NoCall

\* --------------------------------------------------------------- actions

\* The wall clock advances between any two steps.
Tick ==
    /\ now + TickSeconds <= MaxTime
    /\ now' = now + TickSeconds
    /\ UNCHANGED <<pure, renaming_operations, disk, pc, event, locals,
                   history>>

\* the template check after the dedup insert instead of before it
NoTemplate_AfterInsert(j) ==
    /\ pc[j] = "idle"
    /\ pc' = [pc EXCEPT ![j] = "noTemplate"]
    /\ arrival' = [arrival EXCEPT ![j] = now]
    /\ replies' = [replies EXCEPT ![j] = @ \cup {"instruction"}]
    /\ \E fid \in EventFileIds(j) :
          renaming_operations' = [renaming_operations EXCEPT ![fid] = now]
    /\ UNCHANGED <<pure, now, disk, file_id, new_filename, locals, metaFailed,
                   thumbFailed, sends, delivered, outcome, cause>>

\* lines 213-217: the sender has no naming template
NoTemplate(j) ==
    /\ pc[j] = "idle"
    /\ pc' = [pc EXCEPT ![j] = "noTemplate"]
    /\ arrival' = [arrival EXCEPT ![j] = now]
    /\ replies' = [replies EXCEPT ![j] = @ \cup {"instruction"}]
    /\ UNCHANGED <<pure, now, renaming_operations, disk, file_id, new_filename,
                   locals, metaFailed, thumbFailed, sends, delivered,
                   outcome, cause>>

\* the dedup return inside the try statement: the finally clause runs for
\* the dropped event and pops the entry of the job in flight
DedupDrop_Evicting(j) ==
    /\ pc[j] = "idle"
    /\ \E fid \in EventFileIds(j) :
          /\ IsDuplicate(fid)
          /\ file_id' = [file_id EXCEPT ![j] = fid]
          /\ renaming_operations' = [renaming_operations EXCEPT ![fid] = NoEntry]
    /\ pc' = [pc EXCEPT ![j] = "dropped"]
    /\ arrival' = [arrival EXCEPT ![j] = now]
    /\ UNCHANGED <<pure, now, disk, new_filename, locals, history>>

\* lines 245-248: the file id was inserted less than 10 seconds ago
DedupDrop(j) ==
    /\ pc[j] = "idle"
    /\ \E fid \in EventFileIds(j) :
          /\ IsDuplicate(fid)
          /\ file_id' = [file_id EXCEPT ![j] = fid]
    /\ pc' = [pc EXCEPT ![j] = "dropped"]
    /\ arrival' = [arrival EXCEPT ![j] = now]
    /\ UNCHANGED <<pure, now, renaming_operations, disk, new_filename, locals,
                   history>>

\* lines 249-285: the job is created: table insert, extraction, template
\* resolution, paths, "Downloading..." status reply.  The extraction runs
\* inside the try statement and can raise (extract_season_episode does on a
\* match of its last rule, and on a file_name of None): the handler then
\* has its table entry but no paths and no status message, and goes to the
\* except clause.
Admit(j) ==
    /\ pc[j] = "idle"
    /\ \E fid \in EventFileIds(j), name \in EventNames(j), raised \in BOOLEAN :
          /\ ~IsDuplicate(fid)
          /\ file_id' = [file_id EXCEPT ![j] = fid]
          /\ renaming_operations' = [renaming_operations EXCEPT ![fid] = now]
          /\ IF raised
                THEN /\ pc' = [pc EXCEPT ![j] = "failed"]
                     /\ cause' = [cause EXCEPT ![j] = "extract"]
                     /\ UNCHANGED <<new_filename, download_path,
                                    metadata_path, replies>>
                ELSE /\ pc' = [pc EXCEPT ![j] = "download"]
                     /\ new_filename' = [new_filename EXCEPT ![j] = name]
                     /\ download_path' = [download_path EXCEPT ![j] = name]
                     /\ metadata_path' = [metadata_path EXCEPT ![j] = name]
                     /\ replies' = [replies EXCEPT ![j] = @ \cup {"status"}]
                     /\ UNCHANGED cause
    /\ arrival' = [arrival EXCEPT ![j] = now]
    /\ UNCHANGED <<pure, now, disk, thumb_path, file_path, retry_count,
                   metaFailed, thumbFailed, sends, delivered, outcome>>

\* A download_media call to download_path that raised: a partial file may
\* be left behind.
DownloadLeftover(j, partial) ==
    IF partial THEN [downloads EXCEPT ![download_path[j]] = j] ELSE downloads

\* the timeout and generic branches without their raise: the exception is
\* reported on the status message and the handler carries on
AfterDownloadFailure_Swallowed(res) ==
    IF res = "flood" THEN [pc |-> "downloadRetry", cause |-> "none"]
    ELSE [pc |-> "metadata",
          cause |-> IF res = "timeout" THEN "dlTimeout" ELSE "dlError"]

\* lines 286-302: where the handler goes when the first download_media call
\* raised: a rate-limit signal is slept out and the download retried, any
\* other exception is reported on the status message and re-raised
AfterDownloadFailure(res) ==
    IF res = "flood" THEN [pc |-> "downloadRetry", cause |-> "none"]
    ELSE [pc |-> "failed",
          cause |-> IF res = "timeout" THEN "dlTimeout" ELSE "dlError"]

\* lines 286-302: first download attempt
Download(j) ==
    /\ pc[j] = "download"
    /\ \E res \in Results, partial \in BOOLEAN :
          IF res = "ok"
          THEN /\ downloads' = [downloads EXCEPT ![download_path[j]] = j]
               /\ file_path' = [file_path EXCEPT ![j] = "download"]
               /\ pc' = [pc EXCEPT ![j] = "metadata"]
               /\ UNCHANGED cause
          ELSE /\ downloads' = DownloadLeftover(j, partial)
               /\ UNCHANGED file_path
               /\ pc' = [pc EXCEPT ![j] = AfterDownloadFailure(res).pc]
               /\ cause' = [cause EXCEPT ![j] = AfterDownloadFailure(res).cause]
    /\ UNCHANGED <<pure, now, renaming_operations, metadata, thumbs, event,
                   download_path, metadata_path, thumb_path, retry_count,
                   metaFailed, thumbFailed, sends, delivered, replies,
                   outcome>>

\* lines 293-296: where the handler goes when the second download_media
\* call raised: the call sits in the except clause, so whatever it raises
\* leaves the inner try statement and fails the job
AfterRetryFailure(res) ==
    [pc |-> "failed",
     cause |-> CASE res = "flood" -> "dlFlood"
                 [] res = "timeout" -> "dlTimeout"
                 [] OTHER -> "dlError"]

\* lines 293-296: asyncio.sleep(e.value), then the second download attempt
DownloadRetry(j) ==
    /\ pc[j] = "downloadRetry"
    /\ \E res \in Results, partial \in BOOLEAN :
          IF res = "ok"
          THEN /\ downloads' = [downloads EXCEPT ![download_path[j]] = j]
               /\ file_path' = [file_path EXCEPT ![j] = "download"]
               /\ pc' = [pc EXCEPT ![j] = "metadata"]
               /\ UNCHANGED cause
          ELSE /\ downloads' = DownloadLeftover(j, partial)
               /\ UNCHANGED file_path
               /\ pc' = [pc EXCEPT ![j] = AfterRetryFailure(res).pc]
               /\ cause' = [cause EXCEPT ![j] = AfterRetryFailure(res).cause]
    /\ UNCHANGED <<pure, now, renaming_operations, metadata, thumbs, event,
                   download_path, metadata_path, thumb_path, retry_count,
                   metaFailed, thumbFailed, sends, delivered, replies,
                   outcome>>

\* the except clause of line 309 without its fallback assignment, after
\* file_path was set ahead of the muxer run
FileAfterMetadata_NoFallback(ok) == "metadata"

\* lines 306-312: the file handed to the upload after add_metadata returned
\* (ok) or raised
FileAfterMetadata(ok) == IF ok THEN "metadata" ELSE "download"

\* lines 304-312: add_metadata, with the fallback to the original file.
\* The muxer can only exit 0 when its input exists; a failed run (muxer
\* missing, non-zero exit) may leave an output file behind.
Metadata(j) ==
    /\ pc[j] = "metadata"
    /\ \E ok \in BOOLEAN, leftover \in BOOLEAN :
          /\ ok => Exists(j, "download")
          /\ metadata' = IF ok \/ leftover
                         THEN [metadata EXCEPT ![metadata_path[j]] = j]
                         ELSE metadata
          /\ file_path' = [file_path EXCEPT ![j] = FileAfterMetadata(ok)]
          /\ metaFailed' = [metaFailed EXCEPT ![j] = ~ok]
    /\ pc' = [pc EXCEPT ![j] = "thumbDownload"]
    /\ UNCHANGED <<pure, now, renaming_operations, downloads, thumbs, event,
                   download_path, metadata_path, thumb_path, retry_count,
                   thumbFailed, sends, delivered, replies, outcome, cause>>

\* lines 316-332: pick the thumbnail source and fetch it.  Without a source,
\* or when the fetch raises, thumb_path stays None, process_thumbnail
\* (line 116) returns None at once and the upload loop is entered.
ThumbDownload(j) ==
    /\ pc[j] = "thumbDownload"
    /\ \E source \in {"custom", "embedded", "none"}, ok \in BOOLEAN :
          IF source # "none" /\ ok
          THEN /\ thumbs' = [thumbs EXCEPT ![j] = TRUE]
               /\ thumb_path' = [thumb_path EXCEPT ![j] = "thumb"]
               /\ pc' = [pc EXCEPT ![j] = "thumbProcess"]
               /\ UNCHANGED thumbFailed
          ELSE /\ thumb_path' = [thumb_path EXCEPT ![j] = None]
               /\ thumbFailed' = [thumbFailed EXCEPT ![j] = (source # "none")]
               /\ pc' = [pc EXCEPT ![j] = "upload"]
               /\ UNCHANGED thumbs
    /\ UNCHANGED <<pure, now, renaming_operations, downloads, metadata, event,
                   download_path, metadata_path, file_path, retry_count,
                   metaFailed, sends, delivered, replies, outcome, cause>>

\* process_thumbnail without the cleanup_files call of its except clause
ThumbAfterProcess_NoRemoval(ok) ==
    IF ok THEN [file |-> TRUE, path |-> "thumb"]
          ELSE [file |-> TRUE, path |-> None]

\* process_thumbnail, lines 119-127: whether the file is still on disk and
\* what is returned after the image library succeeded (ok) or raised
ThumbAfterProcess(ok) ==
    IF ok THEN [file |-> TRUE, path |-> "thumb"]
          ELSE [file |-> FALSE, path |-> None]

\* lines 332-336: normalise the fetched thumbnail, then enter the upload loop
ThumbProcess(j) ==
    /\ pc[j] = "thumbProcess"
    /\ \E ok \in BOOLEAN :
          /\ thumbs' = [thumbs EXCEPT ![j] = ThumbAfterProcess(ok).file]
          /\ thumb_path' = [thumb_path EXCEPT ![j] = ThumbAfterProcess(ok).path]
          /\ thumbFailed' = [thumbFailed EXCEPT ![j] = ~ok]
    /\ pc' = [pc EXCEPT ![j] = "upload"]
    /\ UNCHANGED <<pure, now, renaming_operations, downloads, metadata, event,
                   download_path, metadata_path, file_path, retry_count,
                   metaFailed, sends, delivered, replies, outcome, cause>>

\* lines 357-381: where the handler goes after an iteration of the upload
\* loop raised `kind` and retry_count became rc
AfterUploadFailure(kind, rc) ==
    IF rc < max_retries THEN "upload"
    ELSE IF kind = "flood" THEN "cleanup"   \* the while condition ends the loop
    ELSE "failed"                           \* msg.edit(...); raise

\* the rate-limit branch without its retry_count += 1
NextRetryCount_FloodFree(kind, rc) == IF kind = "flood" THEN rc ELSE rc + 1

\* lines 361, 364, 375: retry_count after an iteration of the upload loop
\* raised `kind`
NextRetryCount(kind, rc) == rc + 1

\* lines 338-381: one iteration of the upload loop.  send is the outcome of
\* send_video, del the outcome of msg.delete() after a send that returned;
\* send_video can only return when the file it is given exists.
Upload(j) ==
    /\ pc[j] = "upload"
    /\ retry_count[j] < max_retries
    /\ \E send \in Results, del \in Results :
          /\ send = "ok" => Exists(j, file_path[j])
          /\ send # "ok" => del = "ok"
          /\ LET kind == IF send = "ok" THEN del ELSE send
                 rc == NextRetryCount(kind, retry_count[j])
                 next == AfterUploadFailure(kind, rc)
             IN  /\ delivered' = [delivered EXCEPT ![j] = @ \/ (send = "ok")]
                 /\ IF kind = "ok"
                    THEN /\ pc' = [pc EXCEPT ![j] = "cleanup"]
                         /\ outcome' = [outcome EXCEPT ![j] = "Uploaded"]
                         /\ UNCHANGED <<retry_count, cause>>
                    ELSE /\ retry_count' = [retry_count EXCEPT ![j] = rc]
                         /\ pc' = [pc EXCEPT ![j] = next]
                         /\ outcome' = [outcome EXCEPT ![j] =
                                IF next = "cleanup" THEN "Silent" ELSE @]
                         /\ cause' = [cause EXCEPT ![j] =
                                IF next # "failed" THEN @
                                ELSE IF kind = "timeout" THEN "upTimeout"
                                ELSE "upError"]
    /\ sends' = [sends EXCEPT ![j] = @ + 1]
    /\ UNCHANGED <<pure, now, renaming_operations, disk, event, download_path,
                   metadata_path, thumb_path, file_path, metaFailed,
                           thumbFailed,
                   replies>>

\* the error reply outside a try statement, the cleanup outside a finally
\* clause: a reply that raises leaves the handler
AfterReport_Unguarded(raised) == IF raised THEN "escaped" ELSE "cleanup"

\* lines 385-388: where the handler goes after the error reply returned or
\* raised
AfterReport(raised) == "cleanup"

\* lines 383-388: the job boundary reports the exception to the user
Report(j) ==
    /\ pc[j] = "failed"
    /\ \E raised \in BOOLEAN :
          pc' = [pc EXCEPT ![j] = AfterReport(raised)]
    /\ replies' = [replies EXCEPT ![j] = @ \cup {"error"}]
    /\ outcome' = [outcome EXCEPT ![j] = "Failed"]
    /\ UNCHANGED <<pure, now, renaming_operations, disk, event, locals,
            metaFailed,
                   thumbFailed, sends, delivered, cause>>

\* cleanup_files called without metadata_path
CleanedDisk_NoMetadata(j) ==
    [downloads |-> Removed(downloads, download_path[j]),
     metadata |-> metadata,
     thumbs |-> IF thumb_path[j] = None THEN thumbs
                ELSE [thumbs EXCEPT ![j] = FALSE]]

\* cleanup_files(download_path, metadata_path, thumb_path), line 391: the
\* disk after the three removals
CleanedDisk(j) ==
    [downloads |-> Removed(downloads, download_path[j]),
     metadata |-> Removed(metadata, metadata_path[j]),
     thumbs |-> IF thumb_path[j] = None THEN thumbs
                ELSE [thumbs EXCEPT ![j] = FALSE]]

\* the finally clause without the pop
Evicted_Kept(fid) == renaming_operations

\* renaming_operations.pop(file_id, None), line 392
Evicted(fid) == [renaming_operations EXCEPT ![fid] = NoEntry]

\* lines 389-392: the finally clause; the handler returns, its locals go
\* out of scope and the record of its stages is dropped with them
Cleanup(j) ==
    /\ pc[j] = "cleanup"
    /\ downloads' = CleanedDisk(j).downloads
    /\ metadata' = CleanedDisk(j).metadata
    /\ thumbs' = CleanedDisk(j).thumbs
    /\ renaming_operations' = Evicted(file_id[j])
    /\ pc' = [pc EXCEPT ![j] = "done"]
    /\ new_filename' = [new_filename EXCEPT ![j] = None]
    /\ download_path' = [download_path EXCEPT ![j] = None]
    /\ metadata_path' = [metadata_path EXCEPT ![j] = None]
    /\ thumb_path' = [thumb_path EXCEPT ![j] = None]
    /\ file_path' = [file_path EXCEPT ![j] = None]
    /\ retry_count' = [retry_count EXCEPT ![j] = 0]
    /\ metaFailed' = [metaFailed EXCEPT ![j] = FALSE]
    /\ thumbFailed' = [thumbFailed EXCEPT ![j] = FALSE]
    /\ sends' = [sends EXCEPT ![j] = 0]
    /\ delivered' = [delivered EXCEPT ![j] = FALSE]
    /\ cause' = [cause EXCEPT ![j] = "none"]
    /\ UNCHANGED <<pure, now, file_id, arrival, replies, outcome>>

\* ------------------------------------------------------------ behaviours
Pipeline(j) ==
    \/ Download(j)
    \/ DownloadRetry(j)
    \/ Metadata(j)
    \/ ThumbDownload(j)
    \/ ThumbProcess(j)
    \/ Upload(j)
    \/ Report(j)
    \/ Cleanup(j)

Receive(j) ==
    \/ NoTemplate(j)
    \/ DedupDrop(j)
    \/ Admit(j)

Next ==
    \/ Tick
    \/ \E j \in Jobs : Receive(j)
    \/ \E j \in Jobs : Pipeline(j)

Spec == Init /\ [][Next]_vars

\* One handler instance on its own.  No guard of a Pipeline step reads the
\* state of another instance, so every path of one instance is a path here.
SoloNext ==
    \/ Tick
    \/ NoTemplate(1)
    \/ Admit(1)
    \/ Pipeline(1)

SoloSpec == Init /\ [][SoloNext]_vars

\* Every call of the environment eventually returns or raises, so a handler
\* that can take a step eventually takes one.
SoloFairSpec == SoloSpec /\ WF_vars(Pipeline(1))

TypeOK ==
    /\ now \in 0..MaxTime
    /\ pc \in [Jobs -> {"idle", "noTemplate", "dropped", "download",
                        "downloadRetry", "metadata", "thumbDownload",
                        "thumbProcess", "upload", "failed", "cleanup", "done"}]
    /\ retry_count \in [Jobs -> 0..max_retries]

\* ------------------------------------------------- regular expressions
\* Texts are tuples of one-character strings.  The patterns of lines 29-57
\* are built from the constructors below and matched the way the re module
\* matches them: leftmost start, alternatives in order, greedy repetition
\* with backtracking, re.IGNORECASE throughout.

Absent == <<None>>             \* None where a text can stand
Digits == {"0", "1", "2", "3", "4", "5", "6", "7", "8", "9"}
Whitespace == {" "}
UpperCase == <<"A", "B", "C", "D", "E", "F", "G", "H", "I", "J", "K", "L", "M",
               "N", "O", "P", "Q", "R", "S", "T", "U", "V", "W", "X", "Y", "Z">>
LowerCase == <<"a", "b", "c", "d", "e", "f", "g", "h", "i", "j", "k", "l", "m",
               "n", "o", "p", "q", "r", "s", "t", "u", "v", "w", "x", "y", "z">>
Letters == 1..Len(UpperCase)

\* str.lower() of one character, and of a text
Lower(c) ==
    IF \E k \in Letters : UpperCase[k] = c
    THEN LowerCase[CHOOSE k \in Letters : UpperCase[k] = c]
    ELSE c
LowerStr(s) == [k \in 1..Len(s) |-> Lower(s[k])]

\* \w at position i of s (False outside the text)
IsWord(s, i) ==
    /\ i \in 1..Len(s)
    /\ \/ s[i] \in Digits \cup {"_"}
       \/ \E k \in Letters : LowerCase[k] = Lower(s[i])

Chr(cs) == [t |-> "chr", cs |-> cs]       \* one character of the class cs
NotChr(cs) == [t |-> "not", cs |-> cs]    \* [^...]
WordB == [t |-> "wb"]                     \* \b
Cat(rs) == [t |-> "cat", rs |-> rs]       \* concatenation
Alt(rs) == [t |-> "alt", rs |-> rs]       \* a|b|..., tried in order
Star(r) == [t |-> "star", r |-> r]        \* r*, greedy
Plus(r) == Cat(<<r, Star(r)>>)            \* r+
Opt(r) == Alt(<<r, Cat(<<>>)>>)           \* r?
Grp(n, r) == [t |-> "grp", n |-> n, r |-> r]    \* capturing group n
Lit(cs) == Cat([k \in 1..Len(cs) |-> Chr({cs[k]})])

NoGroups == [n \in 1..2 |-> <<0, 0>>]

\* Match(r, s, i, g): the ways r matches s from position i on, in the order
\* the backtracking matcher tries them; each is the position after the
\* match and the groups captured so far.
RECURSIVE Match(_, _, _, _)
RECURSIVE MatchCat(_, _, _, _, _)
RECURSIVE ThreadCat(_, _, _, _, _)
RECURSIVE MatchAlt(_, _, _, _, _)
RECURSIVE ThreadStar(_, _, _, _, _)

MatchCat(rs, n, s, i, g) ==
    IF n > Len(rs) THEN <<[pos |-> i, g |-> g]>>
    ELSE ThreadCat(Match(rs[n], s, i, g), 1, rs, n + 1, s)

ThreadCat(os, k, rs, n, s) ==
    IF k > Len(os) THEN <<>>
    ELSE MatchCat(rs, n, s, os[k].pos, os[k].g)
             \o ThreadCat(os, k + 1, rs, n, s)

MatchAlt(rs, n, s, i, g) ==
    IF n > Len(rs) THEN <<>>
    ELSE Match(rs[n], s, i, g) \o MatchAlt(rs, n + 1, s, i, g)

ThreadStar(os, k, r, s, i) ==
    IF k > Len(os) THEN <<>>
    ELSE (IF os[k].pos > i THEN Match(Star(r), s, os[k].pos, os[k].g)
          ELSE <<>>)
             \o ThreadStar(os, k + 1, r, s, i)

Match(r, s, i, g) ==
    CASE r.t = "chr" ->
           IF i <= Len(s) /\ Lower(s[i]) \in r.cs
           THEN <<[pos |-> i + 1, g |-> g]>> ELSE <<>>
      [] r.t = "not" ->
           IF i <= Len(s) /\ s[i] \notin r.cs
           THEN <<[pos |-> i + 1, g |-> g]>> ELSE <<>>
      [] r.t = "wb" ->
           IF IsWord(s, i - 1) # IsWord(s, i)
           THEN <<[pos |-> i, g |-> g]>> ELSE <<>>
      [] r.t = "cat" -> MatchCat(r.rs, 1, s, i, g)
      [] r.t = "alt" -> MatchAlt(r.rs, 1, s, i, g)
      [] r.t = "star" ->
           ThreadStar(Match(r.r, s, i, g), 1, r.r, s, i)
               \o <<[pos |-> i, g |-> g]>>
      [] r.t = "grp" ->
           LET os == Match(r.r, s, i, g)
           IN  [k \in 1..Len(os) |->
                   [pos |-> os[k].pos,
                    g |-> [os[k].g EXCEPT ![r.n] = <<i, os[k].pos>>]]]

NoMatch == [found |-> FALSE]

\* pattern.search(s): the first way to match at the leftmost position that
\* has one
Search(r, s) ==
    LET starts == {i \in 1..(Len(s) + 1) : Len(Match(r, s, i, NoGroups)) > 0}
    IN  IF starts = {} THEN NoMatch
        ELSE LET i == CHOOSE i \in starts : \A k \in starts : i <= k
                 o == Head(Match(r, s, i, NoGroups))
             IN  [found |-> TRUE, lo |-> i, hi |-> o.pos, g |-> o.g]

\* match.group(n) for a group that took part in the match; group 0 is the
\* whole match
Group(m, s, n) ==
    IF n = 0 THEN SubSeq(s, m.lo, m.hi - 1)
    ELSE SubSeq(s, m.g[n][1], m.g[n][2] - 1)

\* ------------------------------------------------------- pattern tables
Digit == Chr(Digits)
Num(n) == Grp(n, Plus(Digit))                   \* (\d+)
Spaces == Star(Chr(Whitespace))                 \* \s*
EorEP == Alt(<<Lit(<<"e">>), Lit(<<"e", "p">>)>>)     \* (?:E|EP)
Digits34 == Alt(<<Cat(<<Digit, Digit, Digit, Digit>>),
                  Cat(<<Digit, Digit, Digit>>)>>)         \* \d{3,4}
Resolution(n) == Grp(n, Cat(<<Digits34, Chr({"p", "i"})>>))    \* (\d{3,4}[pi])

\* lines 29-43; ngroups is the number of groups the compiled pattern has
SEASON_EPISODE_PATTERNS == <<
    [re |-> Cat(<<Lit(<<"s">>), Num(1), Spaces, EorEP, Spaces, Num(2)>>),
     season_group |-> "season", episode_group |-> "episode", ngroups |-> 2],
    [re |-> Cat(<<Lit(<<"s">>), Num(1), Chr({"-", "_"}), EorEP, Num(2)>>),
     season_group |-> "season", episode_group |-> "episode", ngroups |-> 2],
    [re |-> Cat(<<Lit(<<"s", "e", "a", "s", "o", "n">>), Spaces, Num(1),
            Spaces, Lit(<<"e", "p", "i", "s", "o", "d", "e">>), Spaces,
                  Num(2)>>),
     season_group |-> "season", episode_group |-> "episode", ngroups |-> 2],
    [re |-> Cat(<<Lit(<<"[", "s">>), Num(1), Spaces, Opt(EorEP), Spaces,
            Num(2), Lit(<<"]">>)>>),
     season_group |-> "season", episode_group |-> "episode", ngroups |-> 2],
    [re |-> Cat(<<Lit(<<"[", "s">>), Num(1), Lit(<<"]", "[", "e">>), Num(2),
            Lit(<<"]">>)>>),
     season_group |-> "season", episode_group |-> "episode", ngroups |-> 2],
    [re |-> Cat(<<Lit(<<"s">>), Num(1), Star(NotChr(Digits)), Num(2)>>),
     season_group |-> "season", episode_group |-> "episode", ngroups |-> 2],
    [re |-> Cat(<<Alt(<<Lit(<<"e">>), Lit(<<"e", "p">>), Lit(<<"e", "p", "i",
            "s", "o", "d", "e">>)>>), Spaces, Num(1)>>),
     season_group |-> None, episode_group |-> "episode", ngroups |-> 1] >>

\* lines 45-57; extractor names the lambda of the entry
QUALITY_PATTERNS == <<
    [re |-> Cat(<<Lit(<<"[">>), Resolution(1), Lit(<<"]">>)>>),
            extractor |-> "group1"],
    [re |-> Cat(<<WordB, Resolution(1), WordB>>), extractor |-> "group1"],
    [re |-> Cat(<<Opt(Lit(<<"[">>)), Grp(1, Alt(<<Lit(<<"4", "k">>), Lit(<<"2",
            "1", "6", "0", "p">>), Lit(<<"u", "h", "d">>)>>)),
                  Opt(Lit(<<"]">>))>>),
     extractor |-> "4k"],
    [re |-> Cat(<<Opt(Lit(<<"[">>)), Grp(1, Alt(<<Lit(<<"2", "k">>), Lit(<<"1",
            "4", "4", "0", "p">>), Lit(<<"q", "h", "d">>)>>)),
                  Opt(Lit(<<"]">>))>>),
     extractor |-> "2k"],
    [re |-> Cat(<<Opt(Lit(<<"[">>)),
                  Grp(1, Alt(<<Lit(<<"h", "d", "r", "i", "p">>), Lit(<<"h",
                          "d", "t", "v">>), Lit(<<"w", "e", "b", "r", "i",
                          "p">>), Lit(<<"w", "e", "b", "r", "i", "p">>),
                          Lit(<<"b", "l", "u", "r", "a", "y">>),
                               Lit(<<"b", "r", "r", "i", "p">>)>>)),
                  Opt(Lit(<<"]">>))>>),
     extractor |-> "group1"],
    [re |-> Cat(<<Opt(Lit(<<"[">>)),
                  Opt(Grp(1, Alt(<<Lit(<<"4", "k">>), Lit(<<"2", "k">>),
                          Lit(<<"1", "0", "8", "0", "p">>), Lit(<<"7", "2",
                          "0", "p">>), Lit(<<"4", "8", "0", "p">>)>>))),
                  Spaces, Chr({"x"}), Grp(2, Alt(<<Lit(<<"2", "6", "4">>),
                          Lit(<<"2", "6", "5">>)>>)),
                  Opt(Lit(<<"]">>))>>),
     extractor |-> "group0"] >>

Unknown == <<"U", "n", "k", "n", "o", "w", "n">>

\* index of the first entry of the table whose pattern is found in the
\* text, from entry k on; 0 when none is
RECURSIVE FirstMatch(_, _, _)
FirstMatch(patterns, text, k) ==
    IF k > Len(patterns) THEN 0
    ELSE IF Search(patterns[k].re, text).found THEN k
    ELSE FirstMatch(patterns, text, k + 1)

\* if caption: (None and the empty string are both skipped)
Truthy(text) == text # Absent /\ text # <<>>

\* lines 65-68 and 75-78: match.group(n) raises IndexError when the pattern
\* has fewer than n groups
SeasonEpisodeOf(rule, text) ==
    LET m == Search(rule.re, text)
        episode_n == IF rule.episode_group # None THEN 2 ELSE 1
    IN  IF (rule.season_group # None /\ 1 > rule.ngroups)
            \/ episode_n > rule.ngroups
        THEN [raised |-> TRUE, season |-> Absent, episode |-> Absent]
        ELSE [raised |-> FALSE,
              season |-> IF rule.season_group # None THEN Group(m, text, 1)
                         ELSE Absent,
              episode |-> Group(m, text, episode_n)]

\* lines 59-81
extract_season_episode(caption, filename) ==
    LET c == IF Truthy(caption)
             THEN FirstMatch(SEASON_EPISODE_PATTERNS, caption, 1) ELSE 0
        f == FirstMatch(SEASON_EPISODE_PATTERNS, filename, 1)
    IN  IF c > 0 THEN SeasonEpisodeOf(SEASON_EPISODE_PATTERNS[c], caption)
        ELSE IF f > 0 THEN SeasonEpisodeOf(SEASON_EPISODE_PATTERNS[f], filename)
        ELSE [raised |-> FALSE, season |-> Absent, episode |-> Absent]

\* the extractor lambdas of lines 47-56
QualityOf(rule, text) ==
    LET m == Search(rule.re, text)
    IN  CASE rule.extractor = "group1" -> LowerStr(Group(m, text, 1))
          [] rule.extractor = "group0" -> LowerStr(Group(m, text, 0))
          [] rule.extractor = "4k" -> <<"4", "k">>
          [] rule.extractor = "2k" -> <<"2", "k">>

\* lines 83-103
extract_quality(caption, filename) ==
    LET c == IF Truthy(caption)
             THEN FirstMatch(QUALITY_PATTERNS, caption, 1) ELSE 0
        f == FirstMatch(QUALITY_PATTERNS, filename, 1)
    IN  IF c > 0 THEN QualityOf(QUALITY_PATTERNS[c], caption)
        ELSE IF f > 0 THEN QualityOf(QUALITY_PATTERNS[f], filename)
        ELSE Unknown

\* ------------------------------------------- the extraction functions
\* extract_season_episode and extract_quality applied to a caption and a
\* filename, as the handler applies them at lines 259-260.

SeasonNumbers == {<<"1">>, <<"0", "1">>}
EpisodeNumbers == {<<"2">>, <<"0", "2">>}
BracketText(a, b) == <<"[", "S">> \o a \o <<"]", "[", "E">> \o b \o <<"]">>

\* message.caption: None, the empty string, or a text
Captions ==
    {Absent, <<>>,
     <<"S", "h", "o", "w", " ", "S", "0", "2", "E", "P", "0", "5", " ", "[",
             "1", "0", "8", "0", "p", "]">>,
     <<"E", "p", "i", "s", "o", "d", "e", " ", "5", " ", "4", "K">>,
     <<"S", "e", "a", "s", "o", "n", " ", "1", " ", "E", "p", "i", "s", "o",
             "d", "e", " ", "3">>,
     <<"x", ".", "m", "k", "v">>,
     <<"S", "1", "-", "E", "2", " ", "H", "D", "R", "i", "p">>,
     <<"[", "S", "0", "1", "E", "0", "2", "]">>}

\* the file_name of the message
Filenames ==
    {<<"x", ".", "m", "k", "v">>,
     <<"S", "h", "o", "w", ".", "S", "e", "a", "s", "o", "n", ".", "1", ".",
             "E", "p", "i", "s", "o", "d", "e", ".", "3", ".", "7", "2", "0",
             "p", ".", "m", "k", "v">>,
     <<"S", "h", "o", "w", " ", "S", "0", "1", "E", "0", "2", " ", "7", "2",
             "0", "p">>,
     <<"S", "0", "1", " ", "1", "3">>,
     <<"E", "p", "i", "s", "o", "d", "e", " ", "5", " ", "4", "K">>,
     <<"[", "7", "2", "0", "p", "]", " ", "x", "2", "6", "4">>}
        \cup {BracketText(a, b) : a \in SeasonNumbers, b \in EpisodeNumbers}

ExtractInit ==
    /\ HandlerInit
    /\ \E c \in Captions, f \in Filenames :
          call = [fn |-> "extract", caption |-> c, filename |-> f]
    /\ result = NoCall

\* line 259
ExtractSeasonEpisode ==
    /\ call.fn = "extract" /\ result.fn = "none"
    /\ LET r == extract_season_episode(call.caption, call.filename)
       IN  result' = [fn |-> "season_episode", raised |-> r.raised,
                      season |-> r.season, episode |-> r.episode]
    /\ UNCHANGED <<handler, call>>

\* line 260
ExtractQuality ==
    /\ call.fn = "extract" /\ result.fn = "none"
    /\ result' = [fn |-> "quality",
                  quality |-> extract_quality(call.caption, call.filename)]
    /\ UNCHANGED <<handler, call>>

ExtractNext ==
    \/ ExtractSeasonEpisode
    \/ ExtractQuality

ExtractSpec == ExtractInit /\ [][ExtractNext]_vars

\* ------------------------------------------------- template resolution
XX == <<"X", "X">>

\* a or b of Python, for a text or None
Or(a, b) == IF Truthy(a) THEN a ELSE b

StartsWith(s, old) == Len(old) <= Len(s) /\ SubSeq(s, 1, Len(old)) = old

RECURSIVE Replace(_, _, _)
RECURSIVE Replace_FirstOnly(_, _, _)

\* str.replace with count=1: only the leftmost occurrence is replaced
Replace_FirstOnly(s, old, new) ==
    IF s = <<>> THEN <<>>
    ELSE IF StartsWith(s, old)
    THEN new \o SubSeq(s, Len(old) + 1, Len(s))
    ELSE <<Head(s)>> \o Replace_FirstOnly(Tail(s), old, new)

\* s.replace(old, new), old not empty: every occurrence, left to right,
\* without overlap
Replace(s, old, new) ==
    IF s = <<>> THEN <<>>
    ELSE IF StartsWith(s, old)
    THEN new \o Replace(SubSeq(s, Len(old) + 1, Len(s)), old, new)
    ELSE <<Head(s)>> \o Replace(Tail(s), old, new)

\* lines 263-270: the dict, in insertion order
replacements(season, episode, quality) == <<
    [placeholder |-> <<"{", "s", "e", "a", "s", "o", "n", "}">>,
            value |-> Or(season, XX)],
    [placeholder |-> <<"{", "e", "p", "i", "s", "o", "d", "e", "}">>,
            value |-> Or(episode, XX)],
    [placeholder |-> <<"{", "q", "u", "a", "l", "i", "t", "y", "}">>,
            value |-> quality],
    [placeholder |-> <<"S", "e", "a", "s", "o", "n">>, value |-> Or(season,
            XX)],
    [placeholder |-> <<"E", "p", "i", "s", "o", "d", "e">>,
            value |-> Or(episode, XX)],
    [placeholder |-> <<"Q", "U", "A", "L", "I", "T", "Y">>,
            value |-> quality] >>

\* lines 272-273: the loop over replacements.items(), from item k on
RECURSIVE ReplaceEach(_, _, _)
ReplaceEach(format_template, items, k) ==
    IF k > Len(items) THEN format_template
    ELSE ReplaceEach(Replace(format_template, items[k].placeholder,
                             items[k].value),
                     items, k + 1)

\* what the user can have stored as the rename format
Templates ==
    {<<"{", "s", "e", "a", "s", "o", "n", "}", "x", "{", "e", "p", "i", "s",
            "o", "d", "e", "}", " ", "-", " ", "Q", "U", "A", "L", "I", "T",
            "Y">>,
     <<"{", "s", "e", "a", "s", "o", "n", "}", "{", "s", "e", "a", "s", "o",
             "n", "}">>,
     <<"S", "e", "a", "s", "o", "n", " ", "E", "p", "i", "s", "o", "d", "e",
             " ", "{", "q", "u", "a", "l", "i", "t", "y", "}">>,
     <<"S", "{", "s", "e", "a", "s", "o", "n", "}", "E", "{", "e", "p", "i",
             "s", "o", "d", "e", "}", " ", "[", "{", "q", "u", "a", "l", "i",
             "t", "y", "}", "]", " ", "S", "e", "a", "s", "o", "n">>,
     <<"S", "e", "a", "s", "o", "n", "a", "l", " ", "Q", "U", "A", "L", "I",
             "T", "Y">>,
     <<"p", "l", "a", "i", "n">>,
     <<"{", "S", "e", "a", "s", "o", "n", "}", "-", "{", "e", "p", "i", "s",
             "o", "d", "e", "}", "-", "{", "e", "p", "i", "s", "o", "d", "e",
             "}">>,
     <<"Q", "U", "A", "L", "I", "T", "Y", "Q", "U", "A", "L", "I", "T", "Y">>,
     <<"s", "e", "a", "s", "o", "n", " ", "e", "p", "i", "s", "o", "d", "e",
             " ", "q", "u", "a", "l", "i", "t", "y">>}

\* what the extraction can hand over
Seasons == {Absent, <<"0", "1">>}
Episodes == {Absent, <<"0", "5">>}
Qualities == {<<"4", "k">>, <<"7", "2", "0", "p">>, Unknown}

TemplateInit ==
    /\ HandlerInit
    /\ \E t \in Templates, s \in Seasons, e \in Episodes, q \in Qualities :
          call = [fn |-> "resolve", format_template |-> t, season |-> s,
                  episode |-> e, quality |-> q]
    /\ result = NoCall

\* lines 262-273
ResolveTemplate ==
    /\ call.fn = "resolve" /\ result.fn = "none"
    /\ result' = [fn |-> "resolve",
                  format_template |->
                      ReplaceEach(call.format_template,
                                  replacements(call.season, call.episode,
                                               call.quality),
                                  1)]
    /\ UNCHANGED <<handler, call>>

TemplateNext == ResolveTemplate

TemplateSpec == TemplateInit /\ [][TemplateNext]_vars

\* --------------------------------------------------- duration filter
NoDuration == -1               \* None where a duration can stand
MinReliableDuration == 60      \* seconds, lines 152 and 159
LargeFileSize == 10 * 1024 * 1024

\* not d, for a duration or None
Falsy(d) == d = NoDuration \/ d = 0

\* lines 129-168; media is the kind of the message, reported the duration
\* attribute of its video or audio
get_reliable_duration(media, reported, file_size) ==
    LET duration == IF media \in {"video", "audio"} THEN reported
                    ELSE NoDuration
        checked == IF ~Falsy(duration) /\ duration < MinReliableDuration
                   THEN NoDuration ELSE duration
    IN  IF file_size > LargeFileSize
            /\ (Falsy(checked) \/ checked < MinReliableDuration)
        THEN NoDuration
        ELSE checked

MediaKinds == {"document", "video", "audio"}
Durations == {NoDuration, 0, 1, 59, 60, 61, 120}
FileSizes == {0, 1024, LargeFileSize, LargeFileSize + 1, 50 * 1024 * 1024}

\* a document carries no duration
DurationsOf(media) == IF media = "document" THEN {NoDuration} ELSE Durations

DurationInit ==
    /\ HandlerInit
    /\ \E media \in MediaKinds, size \in FileSizes :
          \E d \in DurationsOf(media) :
              call = [fn |-> "duration", media |-> media, reported |-> d,
                      file_size |-> size]
    /\ result = NoCall

\* line 238
GetReliableDuration ==
    /\ call.fn = "duration" /\ result.fn = "none"
    /\ result' = [fn |-> "duration",
                  duration |-> get_reliable_duration(call.media, call.reported,
                                                     call.file_size)]
    /\ UNCHANGED <<handler, call>>

DurationNext == GetReliableDuration

DurationSpec == DurationInit /\ [][DurationNext]_vars

\* ---------------------------------------------------------------- claims

UploadCauses == {"upTimeout", "upError"}

\* the job's try block has ended: it is about to run, or has run, its
\* finally clause
Ended(j) == pc[j] \in {"cleanup", "done"}

\* C1: every job that passed the template check and the dedup check
\* eventually has its finally clause executed (artifacts removed, dedup
\* entry evicted), whichever stage raised: download, metadata rewrite,
\* thumbnail preparation, upload or the error reply.
C1_CleanupReached ==
    \A j \in Jobs : Admitted(j) ~> (pc[j] = "done")

\* a job that failed and was reported has been cleaned up
C1_Witness ==
    \E j \in Jobs : pc[j] = "done" /\ outcome[j] = "Failed"

\* C2: once a job has run its cleanup, no file holding data of that job is
\* left on disk: not its download, not the muxer output (also of a failed
\* run), not its thumbnail (also one whose normalisation failed).
C2_NoArtifactLeft ==
    \A j \in Jobs :
        /\ pc[j] = "done" =>
              /\ \A n \in Names : downloads[n] # j /\ metadata[n] # j
              /\ ~thumbs[j]
        /\ thumbFailed[j] => ~thumbs[j]

\* an uploaded job (it had a download on disk) is done while another job
\* is still working with files on disk
C2_Witness ==
    \E j, k \in Jobs :
        /\ pc[j] = "done" /\ outcome[j] = "Uploaded"
        /\ pc[k] = "upload" /\ Exists(k, file_path[k])

\* C3: of two events with the same file id that arrive within 10 seconds
\* of each other only one creates a job, whether or not the first job has
\* terminated when the second event arrives.
C3_OneJobPerWindow ==
    \A j, k \in Jobs :
        (j # k /\ Admitted(j) /\ Admitted(k) /\ file_id[j] = file_id[k])
            => \/ arrival[j] - arrival[k] >= DebounceSeconds
               \/ arrival[k] - arrival[j] >= DebounceSeconds

\* C4: when the upload loop ends without a send_video call that returned,
\* the job ends Failed and the failure is reported to the user.
C4_FailedUploadReported ==
    \A j \in Jobs :
        (pc[j] = "cleanup" /\ sends[j] > 0 /\ ~delivered[j])
            => (outcome[j] = "Failed" /\ "error" \in replies[j])

\* C5: a job calls send_video at most 3 times, every iteration of the upload
\* loop that raises adds exactly one to retry_count, the first two failed
\* iterations are always retried, and a job whose third iteration succeeds
\* ends Uploaded with exactly 3 send_video calls.
C5_Step(j) ==
    /\ sends'[j] <= max_retries
    /\ (pc[j] = "upload" /\ sends'[j] # sends[j]) =>
          /\ sends'[j] = sends[j] + 1
          /\ sends[j] = retry_count[j]
          /\ \/ outcome'[j] = "Uploaded" /\ pc'[j] = "cleanup"
                  /\ retry_count'[j] = retry_count[j]
             \/ outcome'[j] # "Uploaded"
                  /\ retry_count'[j] = retry_count[j] + 1
                  /\ (retry_count'[j] < max_retries => pc'[j] = "upload")
    /\ (outcome'[j] = "Uploaded" /\ pc'[j] = "cleanup")
          => sends'[j] = retry_count'[j] + 1

C5_UploadAttempts == [][\A j \in Jobs : C5_Step(j)]_vars

\* two iterations raised, the third succeeded: Uploaded after 3 calls
C5_Witness ==
    \E j \in Jobs :
        /\ pc[j] = "cleanup" /\ outcome[j] = "Uploaded"
        /\ retry_count[j] = 2 /\ sends[j] = 3

\* C6: no job fails because of rate-limit signals of its download alone:
\* every such signal is slept out and followed by another download attempt.
C6_NoFailureByDownloadFlood ==
    \A j \in Jobs : cause[j] # "dlFlood"

\* C7: no two in-flight jobs with different file ids share a download or
\* metadata path, and so a job in its upload loop whose file id no other job
\* carries still has the file it uploads.
C7_NoPathCollision ==
    /\ \A j, k \in Jobs :
          (InFlight(j) /\ InFlight(k) /\ file_id[j] # file_id[k])
              => new_filename[j] # new_filename[k]
    /\ \A j \in Jobs :
          (/\ pc[j] = "upload"
           /\ \A k \in Jobs \ {j} : Admitted(k) => file_id[k] # file_id[j])
              => Exists(j, file_path[j])

\* C8: a failed metadata rewrite never aborts the job: the job goes on to
\* the thumbnail and upload stages, can only fail later by an exhausted
\* upload loop, and uploads the downloaded file; after a successful rewrite
\* it uploads the rewritten file.
C8_MetadataBestEffort ==
    \A j \in Jobs :
        /\ metaFailed[j] =>
              /\ pc[j] \in {"thumbDownload", "thumbProcess", "upload",
                            "failed", "cleanup"}
              /\ pc[j] = "failed" => cause[j] \in UploadCauses
              /\ file_path[j] = "download"
        /\ (pc[j] \in {"thumbDownload", "thumbProcess", "upload"}
              /\ ~metaFailed[j])
              => file_path[j] = "metadata"

\* the muxer failed and the original file was uploaded
C8_Witness ==
    \E j \in Jobs :
        /\ metaFailed[j] /\ pc[j] = "cleanup" /\ outcome[j] = "Uploaded"
        /\ file_path[j] = "download"

\* C9: an event of a sender without a naming template issues the one
\* instruction reply and nothing else: no job, no change of the dedup table
\* or of the disk, and the handler instance never acts again.
C9_Step(j) ==
    /\ (pc[j] = "idle" /\ pc'[j] = "noTemplate") =>
          /\ replies'[j] = {"instruction"}
          /\ UNCHANGED <<renaming_operations, disk, locals, file_id,
                         new_filename, sends, outcome>>
    /\ pc[j] = "noTemplate" =>
          /\ pc'[j] = "noTemplate"
          /\ replies'[j] = replies[j]
          /\ sends'[j] = 0 /\ download_path'[j] = None

C9_NoTemplateOnlyReplies == [][\A j \in Jobs : C9_Step(j)]_vars

\* the instruction was issued while another job is in flight and holds a
\* dedup entry
C9_Witness ==
    \E j, k \in Jobs :
        /\ pc[j] = "noTemplate" /\ replies[j] = {"instruction"}
        /\ InFlight(k) /\ renaming_operations[file_id[k]] # NoEntry

\* C10: a thumbnail that could not be fetched or normalised never aborts
\* the job: its file is gone, thumb_path is None, and the job is in or past
\* its upload loop, where it can only fail by exhausted retries.
C10_ThumbnailBestEffort ==
    \A j \in Jobs :
        thumbFailed[j] =>
            /\ thumb_path[j] = None
            /\ ~thumbs[j]
            /\ pc[j] \in {"upload", "failed", "cleanup"}
            /\ pc[j] = "failed" => cause[j] \in UploadCauses

\* the normalisation failed and the file was uploaded without thumbnail
C10_Witness ==
    \E j \in Jobs :
        thumbFailed[j] /\ pc[j] = "cleanup" /\ outcome[j] = "Uploaded"

\* C16: a download that raised a timeout or another non-rate-limit error
\* sends the job straight to the error reply and the cleanup: no muxer run,
\* no thumbnail work and no send_video call happen for it; and send_video
\* is only ever called by a job whose download_media call has returned.
C16_DownloadFailureAborts ==
    \A j \in Jobs :
        /\ cause[j] \in {"dlTimeout", "dlError"} =>
              /\ pc[j] \in {"failed", "cleanup"}
              /\ pc[j] = "cleanup" =>
                    (outcome[j] = "Failed" /\ "error" \in replies[j])
              /\ file_path[j] = None
              /\ sends[j] = 0 /\ ~metaFailed[j] /\ ~thumbFailed[j]
              /\ thumb_path[j] = None /\ ~thumbs[j]
              /\ \A n \in Names : metadata[n] # j
        /\ (sends[j] > 0 \/ pc[j] = "upload") => file_path[j] # None

\* a job whose download timed out or broke has been reported and is about
\* to be cleaned up
C16_Witness ==
    \E j \in Jobs :
        /\ cause[j] \in {"dlTimeout", "dlError"}
        /\ pc[j] = "cleanup" /\ "error" \in replies[j]

\* C17: an event dropped by the dedup check changes nothing: no reply, no
\* job, the dedup table (timestamps and entries) and the disk stay as they
\* are, and the dropped instance never acts again, so it runs no cleanup.
C17_Step(j) ==
    /\ (pc[j] = "idle" /\ pc'[j] = "dropped") =>
          /\ replies'[j] = {}
          /\ UNCHANGED <<renaming_operations, disk, locals, new_filename,
                         history>>
          /\ \A k \in Jobs \ {j} : pc'[k] = pc[k]
    /\ pc[j] = "dropped" =>
          /\ pc'[j] = "dropped"
          /\ replies'[j] = {} /\ outcome'[j] = "none"
          /\ download_path'[j] = None

C17_DroppedChangesNothing == [][\A j \in Jobs : C17_Step(j)]_vars

\* an event was dropped while the job of its file id is in flight and
\* still has its dedup entry
C17_Witness ==
    \E j, k \in Jobs :
        /\ pc[j] = "dropped" /\ InFlight(k) /\ file_id[k] = file_id[j]
        /\ renaming_operations[file_id[k]] # NoEntry

\* C18: once a send_video call of a job has returned, the job makes no
\* further send_video call, also when msg.delete() raises afterwards.
C18_Step(j) == delivered[j] => sends'[j] = sends[j]

C18_AtMostOneDelivery == [][\A j \in Jobs : C18_Step(j)]_vars

\* C19: the file id of a job in flight is in the dedup table: only the
\* cleanup of the job that inserted an entry evicts it.
C19_InFlightHasEntry ==
    \A j \in Jobs : InFlight(j) => renaming_operations[file_id[j]] # NoEntry

\* C20: every file id in the dedup table is the file id of a job in flight,
\* and when no job is in flight the table is empty.
C20_NoLeakedEntry ==
    /\ \A fid \in FileIds :
          renaming_operations[fid] # NoEntry =>
              \E j \in Jobs : InFlight(j) /\ file_id[j] = fid
    /\ (\A j \in Jobs : ~InFlight(j)) =>
          \A fid \in FileIds : renaming_operations[fid] = NoEntry

\* all events are over, one as a finished job, and the table is empty
C20_Witness ==
    /\ \A j \in Jobs : pc[j] \in {"done", "dropped", "noTemplate"}
    /\ \E j \in Jobs : pc[j] = "done"
    /\ \E j \in Jobs : pc[j] # "done"
    /\ \A fid \in FileIds : renaming_operations[fid] = NoEntry

\* what an entry of SEASON_EPISODE_PATTERNS stands for: the season is its
\* first group when it names one, the episode is its last group
RuleYield(rule, text) ==
    LET m == Search(rule.re, text)
    IN  <<IF rule.season_group # None THEN Group(m, text, 1) ELSE Absent,
          Group(m, text, rule.ngroups)>>

\* C11: when any rule matches the caption, the result is what the first
\* rule matching the caption yields, whatever the filename is; the filename
\* decides only when the caption is absent, empty or matches no rule; when
\* neither matches, season and episode are absent and quality is "Unknown".
C11_CaptionPrecedence ==
    LET c == call.caption
        f == call.filename
    IN  /\ result.fn = "season_episode" =>
              LET k == IF Truthy(c)
                       THEN FirstMatch(SEASON_EPISODE_PATTERNS, c, 1) ELSE 0
                  n == FirstMatch(SEASON_EPISODE_PATTERNS, f, 1)
                  got == <<result.season, result.episode>>
              IN  /\ ~result.raised
                  /\ IF k > 0
                     THEN got = RuleYield(SEASON_EPISODE_PATTERNS[k], c)
                     ELSE IF n > 0
                     THEN got = RuleYield(SEASON_EPISODE_PATTERNS[n], f)
                     ELSE got = <<Absent, Absent>>
        /\ result.fn = "quality" =>
              LET k == IF Truthy(c)
                       THEN FirstMatch(QUALITY_PATTERNS, c, 1) ELSE 0
                  n == FirstMatch(QUALITY_PATTERNS, f, 1)
              IN  IF k > 0
                  THEN /\ result.quality = QualityOf(QUALITY_PATTERNS[k], c)
                       /\ \A f2 \in Filenames :
                             extract_quality(c, f2) = result.quality
                  ELSE IF n > 0
                  THEN result.quality = QualityOf(QUALITY_PATTERNS[n], f)
                  ELSE result.quality = Unknown

\* the part of C11 the code keeps: precedence of the caption, in every call
\* that returns
C11_PrecedenceWhenReturned ==
    (result.fn = "season_episode" /\ ~result.raised) =>
        LET c == call.caption
            k == IF Truthy(c)
                 THEN FirstMatch(SEASON_EPISODE_PATTERNS, c, 1) ELSE 0
            n == FirstMatch(SEASON_EPISODE_PATTERNS, call.filename, 1)
            got == <<result.season, result.episode>>
        IN  IF k > 0
            THEN got = RuleYield(SEASON_EPISODE_PATTERNS[k], c)
            ELSE IF n > 0
            THEN got = RuleYield(SEASON_EPISODE_PATTERNS[n], call.filename)
            ELSE got = <<Absent, Absent>>

\* C12: with the caption absent, "Show.Season.1.Episode.3.720p.mkv" yields
\* season "1", episode "3" and quality "720p".
C12_DottedFullWords ==
    (call.fn = "extract" /\ call.caption = Absent
        /\ call.filename = <<"S", "h", "o", "w", ".", "S", "e", "a", "s", "o",
                "n", ".", "1", ".", "E", "p", "i", "s", "o", "d", "e", ".",
                "3", ".", "7", "2", "0", "p", ".", "m", "k", "v">>)
      => /\ result.fn = "season_episode" =>
              /\ ~result.raised
              /\ result.season = <<"1">> /\ result.episode = <<"3">>
         /\ result.fn = "quality" => result.quality = <<"7", "2", "0", "p">>

\* C13: a text [S<a>][E<b>] yields season a and episode b, for one-digit
\* and for two-digit numbers a and b.
C13_BracketPair ==
    \A a \in SeasonNumbers, b \in EpisodeNumbers :
        (/\ call.fn = "extract" /\ ~Truthy(call.caption)
         /\ call.filename = BracketText(a, b)
         /\ result.fn = "season_episode")
            => (~result.raised /\ result.season = a /\ result.episode = b)

\* the template with every token that starts at some position replaced in
\* one pass from left to right, everything else copied
RECURSIVE Substituted(_, _)
Substituted(s, items) ==
    IF s = <<>> THEN <<>>
    ELSE IF \E k \in 1..Len(items) : StartsWith(s, items[k].placeholder)
    THEN LET k == CHOOSE k \in 1..Len(items) :
                      StartsWith(s, items[k].placeholder)
         IN  items[k].value
                 \o Substituted(SubSeq(s, Len(items[k].placeholder) + 1,
                                       Len(s)), items)
    ELSE <<Head(s)>> \o Substituted(Tail(s), items)

Contains(s, t) ==
    \E i \in 1..(Len(s) - Len(t) + 1) : SubSeq(s, i, i + Len(t) - 1) = t

ExampleTemplate == <<"{", "s", "e", "a", "s", "o", "n", "}", "x", "{", "e",
        "p", "i", "s", "o", "d", "e", "}", " ", "-", " ", "Q", "U", "A", "L",
        "I", "T", "Y">>
ExampleCall ==
    [fn |-> "resolve", format_template |-> ExampleTemplate, season |-> Absent,
     episode |-> <<"0", "5">>, quality |-> <<"4", "k">>]

\* C14: the resolved template is the template with every occurrence of
\* {season}, Season, {episode}, Episode, {quality}, QUALITY replaced by the
\* season or "XX", the episode or "XX", the quality, and everything else
\* unchanged; it holds none of the six tokens; and "{season}x{episode} -
\* QUALITY" with no season, episode "05", quality "4k" gives "XXx05 - 4k".
C14_TemplateResolved ==
    result.fn = "resolve" =>
        LET items == replacements(call.season, call.episode, call.quality)
        IN  /\ result.format_template
                  = Substituted(call.format_template, items)
            /\ \A k \in 1..Len(items) :
                  ~Contains(result.format_template, items[k].placeholder)
            /\ call = ExampleCall
                  => result.format_template = <<"X", "X", "x", "0", "5", " ",
                          "-", " ", "4", "k">>

\* the example of the claim has been resolved
C14_Witness ==
    /\ result.fn = "resolve" /\ call = ExampleCall
    /\ result.format_template
          = <<"X", "X", "x", "0", "5", " ", "-", " ", "4", "k">>

\* C15: for every reported duration d and every size the filter returns d
\* when d >= 60 and None otherwise; a duration under 60 seconds, 0 included,
\* is never returned.
C15_DurationFilter ==
    result.fn = "duration" =>
        result.duration
            = IF call.reported # NoDuration
                    /\ call.reported >= MinReliableDuration
              THEN call.reported ELSE NoDuration

====
